---- MODULE Spec2Model ----
(***************************************************************************)
(* Model of the organisation script src/org/pyhon.py: the batch dispatcher *)
(* (process_repo), the single-operation attempt (create_junk_file) and the *)
(* global retry loop of main with retry_failed_files.                      *)
(*                                                                         *)
(* The remote collaborators (create_repo, create_file, get_contents,       *)
(* update_file) are opaque: every call is a pair of steps, the call being  *)
(* issued and the call returning with an outcome chosen by the remote.     *)
(***************************************************************************)
EXTENDS Integers, Sequences, FiniteSets, TLC

\* ------------------------------------------------------------------ bounds
MaxRepos == 2
MaxFiles == 2
\* num_repos * num_files never exceeds MaxOps, and neither does the number of
\* operations times the number of characters
MaxOps == 2
MaxFileSize == 1

\* --------------------------------------------------------------- constants
MAX_RETRIES == 3
RETRY_DELAY == 5
RATE_LIMIT_DELAY == 60
SLOW_DELAY == 1

VARIABLES
    slow_mode,              \* mode chosen at the prompt (line 179)
    num_repos,              \* line 186
    num_files,              \* line 187
    file_size,              \* line 188
    characters,             \* line 47
    main_pc,                \* position of the main thread
    report,                 \* what main printed last about the outcome
    global_failed_files,    \* line 193
    rounds,                 \* calls of retry_failed_files started (line 215)
    retry_waits,            \* time.sleep(RETRY_DELAY) calls made (lines 212, 221)
    new_failures,           \* line 151
    retry_pos,              \* position of the for loop of line 152
    retry_att,              \* frame of the create_junk_file call of line 156
    repos,                  \* one process_repo invocation per repo_index
    tasks,                  \* one create_junk_file future per (repo, file_index)
    attempts,               \* create_junk_file calls started (each issues one
                            \* create_file, line 70), per operation
    last,                   \* how the latest attempt of each operation ended
    container_calls,        \* create_repo calls issued, per repo_index
    script_pc,              \* src/repo/python.py: position of its main thread
    script_tasks,           \* src/repo/python.py: one future per file_index
    script_invoked          \* src/repo/python.py: create_junk_file calls
                            \* started, per file_index

vars == << slow_mode, num_repos, num_files, file_size, characters, main_pc, report,
           global_failed_files, rounds, retry_waits, new_failures, retry_pos,
           retry_att, repos, tasks, attempts, last, container_calls,
           script_pc, script_tasks, script_invoked >>

\* the state of the single-repository script
script == << script_pc, script_tasks, script_invoked >>

\* the state of the organization script
org == << main_pc, report, global_failed_files, rounds, retry_waits,
          new_failures, retry_pos, retry_att, repos, tasks, attempts, last,
          container_calls >>

inputs == << slow_mode, num_repos, num_files, file_size >>

Repos == 1 .. num_repos
Files == 1 .. num_files
Ops == Repos \X Files

\* The tuple (repo, file_index, file_size) of lines 83, 89, 92, 99, 102.
OpTuple(r, i) == << r, i, file_size >>

\* ------------------------------------------------------- remote outcomes
\* repo.create_file: success, a GithubException (status 409, 403 or another
\* one, here 500, whose text may or may not contain "403"), or another
\* Exception whose text may or may not contain "403".
CreateItemOutcomes == { "ok", "gh409", "gh403", "gh500", "gh500txt403", "ex403", "ex" }
\* repo.get_contents returns an object with a sha, or raises.
Shas == { 1, 2 }
\* what get_contents, update_file and create_repo can raise
ErrKinds == { "GithubException", "Exception" }

IsGithubException(e) == e \in { "gh409", "gh403", "gh500", "gh500txt403" }

status(e) ==
    CASE e = "gh409" -> 409
      [] e = "gh403" -> 403
      [] OTHER -> 500

\* "403" in str(err)
str_has_403(e) == e \in { "gh403", "gh500txt403", "ex403" }

\* ------------------------------------------------ random_string_newlined
\* line 47: the characters random.choice draws from, cut down to one or two
Alphabets == { { "a" }, { "a", "b" } }

RECURSIVE join_newline(_)
\* line 48: "\n".join(...)
join_newline(cs) ==
    IF Len(cs) <= 1
    THEN cs
    ELSE << Head(cs), "\n" >> \o join_newline(Tail(cs))

\* lines 39-48: what random_string_newlined(length) can return
random_string_newlined(length) ==
    { join_newline(cs) : cs \in [ 1 .. length -> characters ] }

\* ------------------------------------------------------ create_junk_file
\* The frame of one call of create_junk_file, at the moment create_file has
\* been issued (line 70).
Frame ==
    [ pc |-> "create", err |-> "none", sha |-> 0, upd_sha |-> 0, waited |-> 0,
      reads |-> 0, updates |-> 0, result |-> "none", ret |-> << >>,
      content |-> << >>, upd_content |-> << >>, stored |-> << >> ]

\* line 66 and line 70: the content is generated and create_file is issued
\* with it
FrameWith(content) == [ Frame EXCEPT !.content = content ]

\* A future that is not running: queued, or consumed by as_completed.
Slot(pc) == [ Frame EXCEPT !.pc = pc ]

ReturnTrue(a) == [ a EXCEPT !.pc = "ret", !.result = "True" ]

ReturnTuple(a, opt) == [ a EXCEPT !.pc = "ret", !.result = "tuple", !.ret = opt ]

Raise(a) == [ a EXCEPT !.pc = "ret", !.result = "raised" ]

RateLimitSleep(a) == [ a EXCEPT !.pc = "sleep", !.waited = @ + RATE_LIMIT_DELAY ]

\* lines 73-92: except GithubException as e
except_GithubException(a, e, opt) ==
    IF status(e) = 409
    THEN [ a EXCEPT !.pc = "read", !.reads = @ + 1 ]
    ELSE IF status(e) = 403
         THEN RateLimitSleep(a)
         ELSE ReturnTuple(a, opt)

\* The text of the error is not looked at: no cooldown for a "403" that is
\* no GithubException.
except_Exception_no_sleep(a, e, opt) == ReturnTuple(a, opt)

\* lines 93-102: except Exception as err
except_Exception(a, e, opt) ==
    IF str_has_403(e)
    THEN RateLimitSleep(a)
    ELSE ReturnTuple(a, opt)

\* The success path falls through to the failure return.
create_file_returns_no_return_true(a, out, opt) ==
    IF out = "ok"
    THEN ReturnTuple(a, opt)
    ELSE IF IsGithubException(out)
         THEN except_GithubException([ a EXCEPT !.err = out ], out, opt)
         ELSE except_Exception([ a EXCEPT !.err = out ], out, opt)

\* lines 69-102: create_file returns or raises
create_file_returns(a, out, opt) ==
    IF out = "ok"
    THEN ReturnTrue([ a EXCEPT !.stored = << a.content >> ])
    ELSE IF IsGithubException(out)
         THEN except_GithubException([ a EXCEPT !.err = out ], out, opt)
         ELSE except_Exception([ a EXCEPT !.err = out ], out, opt)

\* lines 81-83: the only handler around get_contents and update_file; an
\* exception that is no GithubException leaves create_junk_file.
except_update_err(a, kind, opt) ==
    IF kind = "GithubException"
    THEN ReturnTuple(a, opt)
    ELSE Raise(a)

\* update_file is issued with an empty content in the place of the content
\* of the attempt.
get_contents_returns_empty_update(a, sha) ==
    [ a EXCEPT !.pc = "update", !.sha = sha, !.upd_sha = sha, !.updates = @ + 1,
               !.upd_content = << >> ]

\* lines 77-78: get_contents returned; update_file is issued with its sha
\* and with the content of line 66
get_contents_returns(a, sha) ==
    [ a EXCEPT !.pc = "update", !.sha = sha, !.upd_sha = sha, !.updates = @ + 1,
               !.upd_content = a.content ]

\* lines 78-80: update_file returned; the remote holds what it was given
update_file_returns(a) == ReturnTrue([ a EXCEPT !.stored = << a.upd_content >> ])

\* lines 88-89, 98-99: the sleep is over
sleep_returns(a, opt) == ReturnTuple(a, opt)

\* What is remembered of a finished attempt: how its create_file ended and
\* how create_junk_file ended.
Outcome(b) ==
    [ create |-> IF b.err = "none" THEN "ok"
                 ELSE IF b.err = "gh409" THEN "conflict" ELSE "error",
      result |-> b.result ]

NoOutcome == [ create |-> "none", result |-> "none" ]

\* The history of an operation once its frame has moved to b.
LastAfter(old, b) == IF b.pc = "ret" THEN Outcome(b) ELSE old

InFlight(a) == a.pc \in { "create", "read", "update" }
Running(a) == a.pc \in { "create", "read", "update", "sleep" }
Finished(a) == a.pc \in { "ret", "seen" }

\* ------------------------------------------------------------- executors
\* The mode is ignored: the pool is always as wide as the batch.
max_workers_ignores_mode(slow, n) == n

\* line 127: max_workers_files = 1 if slow_mode else num_files
max_workers(slow, n) == IF slow THEN 1 ELSE n

\* The repo executor is as wide as the number of repositories in both modes.
max_workers_repos_ignores_mode(slow, n) == n

\* line 195: max_workers_repos = 1 if slow_mode else num_repos
max_workers_repos(slow, n) == IF slow THEN 1 ELSE n

\* ThreadPoolExecutor(max_workers=w) raises ValueError for w <= 0
executor_raises(w) == w <= 0

\* "except GithubException" in the place of "except Exception".
process_repo_catches_github_only(kind) == kind = "GithubException"

\* line 140: except Exception catches whatever is raised inside process_repo
process_repo_catches(kind) == kind \in { "GithubException", "Exception", "ValueError" }

RunningTasks(r) == { i \in Files : Running(tasks[<< r, i >>]) }
QueuedTasks(r) == { i \in Files : tasks[<< r, i >>].pc = "queued" }
RunningRepos == { r \in Repos : repos[r].pc \in { "create_repo", "collect", "sleep1", "drain" } }
QueuedRepos == { r \in Repos : repos[r].pc = "queued" }

\* A worker thread is free and takes the next work item of the queue.
WorkerTakes(w, running, queued, x) ==
    /\ x \in queued
    /\ Cardinality(running) < w
    /\ w = 1 => \A y \in queued : x <= y

\* ----------------------------------------------------------------- state
Init ==
    /\ slow_mode \in BOOLEAN
    /\ num_repos \in 0 .. MaxRepos
    /\ num_files \in 0 .. MaxFiles
    /\ num_repos * num_files <= MaxOps
    /\ file_size \in 0 .. MaxFileSize
    /\ characters \in Alphabets
    /\ num_repos * num_files * Cardinality(characters) <= MaxOps
    /\ main_pc = "start"
    /\ report = "none"
    /\ global_failed_files = << >>
    /\ rounds = 0
    /\ retry_waits = 0
    /\ new_failures = << >>
    /\ retry_pos = 0
    /\ retry_att = Slot("idle")
    /\ repos = [ r \in Repos |-> [ pc |-> "unsubmitted", container |-> "none", failed_files |-> << >> ] ]
    /\ tasks = [ o \in Ops |-> Slot("unsubmitted") ]
    /\ attempts = [ o \in Ops |-> 0 ]
    /\ last = [ o \in Ops |-> NoOutcome ]
    /\ container_calls = [ r \in Repos |-> 0 ]
    /\ script_pc = "idle"
    /\ script_tasks = << >>
    /\ script_invoked = << >>

\* ------------------------------------------------------------ process_repo
\* lines 195-200: the repo executor is built and every process_repo submitted
MainSubmit ==
    /\ main_pc = "start"
    /\ IF executor_raises(max_workers_repos(slow_mode, num_repos))
       THEN /\ main_pc' = "crashed"
            /\ report' = "traceback"
            /\ UNCHANGED repos
       ELSE /\ main_pc' = "as_completed"
            /\ repos' = [ r \in Repos |-> [ repos[r] EXCEPT !.pc = "queued" ] ]
            /\ UNCHANGED report
    /\ UNCHANGED << inputs, characters, script, global_failed_files, rounds, retry_waits, new_failures,
                    retry_pos, retry_att, tasks, attempts, last, container_calls >>

\* lines 116-123: a repo worker starts process_repo and issues create_repo
RepoStart(r) ==
    /\ main_pc = "as_completed"
    /\ WorkerTakes(max_workers_repos(slow_mode, num_repos), RunningRepos, QueuedRepos, r)
    /\ repos' = [ repos EXCEPT ![r].pc = "create_repo" ]
    /\ container_calls' = [ container_calls EXCEPT ![r] = @ + 1 ]
    /\ UNCHANGED << inputs, characters, script, main_pc, report, global_failed_files, rounds, retry_waits,
                    new_failures, retry_pos, retry_att, tasks, attempts, last >>

\* How a process_repo invocation ends when an exception of kind `kind`
\* reaches line 140 with the list `ff` collected so far.
EndByException(rec, kind) ==
    IF process_repo_catches(kind)
    THEN [ rec EXCEPT !.pc = "returned" ]
    ELSE [ rec EXCEPT !.pc = "raised", !.failed_files = << >> ]

\* lines 118-132 (and 140-143): create_repo returned; the file executor is
\* built and every create_junk_file submitted
CreateRepoOk(r) ==
    /\ repos[r].pc = "create_repo"
    /\ IF executor_raises(max_workers(slow_mode, num_files))
       THEN /\ repos' = [ repos EXCEPT
                          ![r] = EndByException([ @ EXCEPT !.container = "ok" ], "ValueError") ]
            /\ UNCHANGED tasks
       ELSE /\ repos' = [ repos EXCEPT ![r].pc = "collect", ![r].container = "ok" ]
            /\ tasks' = [ o \in Ops |-> IF o[1] = r THEN Slot("queued") ELSE tasks[o] ]
    /\ UNCHANGED << inputs, characters, script, main_pc, report, global_failed_files, rounds, retry_waits,
                    new_failures, retry_pos, retry_att, attempts, last, container_calls >>

\* lines 118-123, 140-143: create_repo raised
CreateRepoFails(r, kind) ==
    /\ repos[r].pc = "create_repo"
    /\ repos' = [ repos EXCEPT ![r] = EndByException([ @ EXCEPT !.container = "failed" ], kind) ]
    /\ UNCHANGED << inputs, characters, script, main_pc, report, global_failed_files, rounds, retry_waits,
                    new_failures, retry_pos, retry_att, tasks, attempts, last,
                    container_calls >>

\* lines 128-132, 69-70: a file worker takes a create_junk_file and issues
\* create_file
TaskStart(r, i) ==
    /\ repos[r].pc \in { "collect", "sleep1", "drain" }
    /\ WorkerTakes(max_workers(slow_mode, num_files), RunningTasks(r), QueuedTasks(r), i)
    /\ \E content \in random_string_newlined(file_size) :
          tasks' = [ tasks EXCEPT ![<< r, i >>] = FrameWith(content) ]
    /\ attempts' = [ attempts EXCEPT ![<< r, i >>] = @ + 1 ]
    /\ UNCHANGED << inputs, characters, script, main_pc, report, global_failed_files, rounds, retry_waits,
                    new_failures, retry_pos, retry_att, repos, last, container_calls >>

TaskStep(r, i, b) ==
    /\ tasks' = [ tasks EXCEPT ![<< r, i >>] = b ]
    /\ last' = [ last EXCEPT ![<< r, i >>] = LastAfter(@, b) ]
    /\ UNCHANGED << inputs, characters, script, main_pc, report, global_failed_files, rounds, retry_waits,
                    new_failures, retry_pos, retry_att, repos, attempts,
                    container_calls >>

\* lines 69-102 in a file worker
CreateItemReturns(r, i, out) ==
    /\ tasks[<< r, i >>].pc = "create"
    /\ TaskStep(r, i, create_file_returns(tasks[<< r, i >>], out, OpTuple(r, i)))

\* lines 77-78 in a file worker
GetContentsReturns(r, i, sha) ==
    /\ tasks[<< r, i >>].pc = "read"
    /\ TaskStep(r, i, get_contents_returns(tasks[<< r, i >>], sha))

\* lines 77, 81-83 in a file worker
GetContentsFails(r, i, kind) ==
    /\ tasks[<< r, i >>].pc = "read"
    /\ TaskStep(r, i, except_update_err(tasks[<< r, i >>], kind, OpTuple(r, i)))

\* lines 78-80 in a file worker
UpdateFileReturns(r, i) ==
    /\ tasks[<< r, i >>].pc = "update"
    /\ TaskStep(r, i, update_file_returns(tasks[<< r, i >>]))

\* lines 78, 81-83 in a file worker
UpdateFileFails(r, i, kind) ==
    /\ tasks[<< r, i >>].pc = "update"
    /\ TaskStep(r, i, except_update_err(tasks[<< r, i >>], kind, OpTuple(r, i)))

\* lines 88-89, 98-99 in a file worker
RateLimitSleepEnds(r, i) ==
    /\ tasks[<< r, i >>].pc = "sleep"
    /\ TaskStep(r, i, sleep_returns(tasks[<< r, i >>], OpTuple(r, i)))

\* lines 133-139: as_completed hands a finished future to the loop body; an
\* exception of future.result() leaves the with block, whose exit waits for
\* the workers ("drain")
CollectFuture(r, i) ==
    /\ repos[r].pc = "collect"
    /\ tasks[<< r, i >>].pc = "ret"
    /\ LET a == tasks[<< r, i >>] IN
       repos' = [ repos EXCEPT ![r] =
           IF a.result = "raised"
           THEN [ @ EXCEPT !.pc = "drain" ]
           ELSE [ @ EXCEPT !.pc = IF slow_mode THEN "sleep1" ELSE "collect",
                           !.failed_files = IF a.result # "True"
                                            THEN Append(@, a.ret)
                                            ELSE @ ] ]
    /\ tasks' = [ tasks EXCEPT ![<< r, i >>] = Slot("seen") ]
    /\ UNCHANGED << inputs, characters, script, main_pc, report, global_failed_files, rounds, retry_waits,
                    new_failures, retry_pos, retry_att, attempts, last, container_calls >>

\* line 139: time.sleep(1) is over
SlowPauseEnds(r) ==
    /\ repos[r].pc = "sleep1"
    /\ repos' = [ repos EXCEPT ![r].pc = "collect" ]
    /\ UNCHANGED << inputs, characters, script, main_pc, report, global_failed_files, rounds, retry_waits,
                    new_failures, retry_pos, retry_att, tasks, attempts, last,
                    container_calls >>

\* lines 133, 128, 143: every future was handed out, the with block is left
\* and failed_files returned
ProcessRepoReturns(r) ==
    /\ repos[r].pc = "collect"
    /\ \A i \in Files : tasks[<< r, i >>].pc = "seen"
    /\ repos' = [ repos EXCEPT ![r].pc = "returned" ]
    /\ UNCHANGED << inputs, characters, script, main_pc, report, global_failed_files, rounds, retry_waits,
                    new_failures, retry_pos, retry_att, tasks, attempts, last,
                    container_calls >>

\* lines 128, 140-143: the exception of future.result() leaves the with
\* block once every worker has finished, and is handled at line 140
ProcessRepoAborts(r) ==
    /\ repos[r].pc = "drain"
    /\ \A i \in Files : Finished(tasks[<< r, i >>])
    /\ repos' = [ repos EXCEPT ![r] = EndByException(@, "Exception") ]
    /\ tasks' = [ o \in Ops |-> IF o[1] = r THEN Slot("seen") ELSE tasks[o] ]
    /\ UNCHANGED << inputs, characters, script, main_pc, report, global_failed_files, rounds, retry_waits,
                    new_failures, retry_pos, retry_att, attempts, last, container_calls >>

\* -------------------------------------------------------------------- main
\* An assignment in the place of extend: the list of the last container
\* replaces the global list.
extend_global_assigns(gl, ff) == ff

\* Only the first non-empty list reaches the global list: the later ones are
\* lost.
extend_global_keeps_first(gl, ff) == IF gl = << >> THEN ff ELSE gl

\* lines 203-205
extend_global(gl, ff) == IF ff # << >> THEN gl \o ff ELSE gl

\* lines 201-207: as_completed hands a finished process_repo to the loop body
MainCollect(r) ==
    /\ main_pc = "as_completed"
    /\ repos[r].pc \in { "returned", "raised" }
    /\ global_failed_files' =
           IF repos[r].pc = "returned"
           THEN extend_global(global_failed_files, repos[r].failed_files)
           ELSE global_failed_files
    /\ repos' = [ repos EXCEPT ![r].pc = "collected" ]
    /\ UNCHANGED << inputs, characters, script, main_pc, report, rounds, retry_waits, new_failures,
                    retry_pos, retry_att, tasks, attempts, last, container_calls >>

\* lines 209-212, 224-225
\* The first collected process_repo ends the wait of main.
as_completed_first_only == \E r \in Repos : repos[r].pc = "collected"

\* lines 196-207: every future of the repo executor was handed out by
\* as_completed and the with block is left
as_completed_exhausted == \A r \in Repos : repos[r].pc = "collected"

MainRetryCheck ==
    /\ main_pc = "as_completed"
    /\ as_completed_exhausted
    /\ IF global_failed_files # << >>
       THEN /\ main_pc' = "retry_delay"
            /\ retry_waits' = retry_waits + 1
            /\ UNCHANGED report
       ELSE /\ main_pc' = "done"
            /\ report' = "first_pass"
            /\ UNCHANGED retry_waits
    /\ UNCHANGED << inputs, characters, script, global_failed_files, rounds, new_failures, retry_pos,
                    retry_att, repos, tasks, attempts, last, container_calls >>

\* An off-by-one loop bound: one round too many.
range_has_next_off_by_one(done) == done <= MAX_RETRIES

\* line 213: for attempt in range(MAX_RETRIES)
range_has_next(done) == done < MAX_RETRIES

\* lines 212-215, 221-223: time.sleep(RETRY_DELAY) is over; the next round
\* starts, or the loop is exhausted and the remaining failures are reported
RetryDelayEnds ==
    /\ main_pc = "retry_delay"
    /\ IF range_has_next(rounds)
       THEN /\ main_pc' = "round"
            /\ rounds' = rounds + 1
            /\ new_failures' = << >>
            /\ retry_pos' = 1
            /\ UNCHANGED report
       ELSE /\ main_pc' = "done"
            /\ report' = IF global_failed_files # << >> THEN "still_failed" ELSE report
            /\ UNCHANGED << rounds, new_failures, retry_pos >>
    /\ UNCHANGED << inputs, characters, script, global_failed_files, retry_waits, retry_att, repos, tasks,
                    attempts, last, container_calls >>

\* The list is walked from its last task to its first.
task_at_reversed(failed_tasks, pos) == failed_tasks[Len(failed_tasks) + 1 - pos]

\* line 152: for task in failed_tasks
task_at(failed_tasks, pos) == failed_tasks[pos]

\* line 153: repo, file_index, file_size = task
RetryTuple == task_at(global_failed_files, retry_pos)

RetryOp == << RetryTuple[1], RetryTuple[2] >>

IssueRetry ==
    /\ main_pc' = "retry_call"
    /\ \E content \in random_string_newlined(RetryTuple[3]) :
          retry_att' = FrameWith(content)
    /\ attempts' = [ attempts EXCEPT ![RetryOp] = @ + 1 ]

\* lines 152-156: the next task of the round
RetryNextTask ==
    /\ main_pc = "round"
    /\ retry_pos <= Len(global_failed_files)
    /\ IF slow_mode
       THEN /\ main_pc' = "retry_sleep1"
            /\ UNCHANGED << retry_att, attempts >>
       ELSE IssueRetry
    /\ UNCHANGED << inputs, characters, script, report, global_failed_files, rounds, retry_waits,
                    new_failures, retry_pos, repos, tasks, last, container_calls >>

\* lines 155-156: time.sleep(1) is over
RetrySlowPauseEnds ==
    /\ main_pc = "retry_sleep1"
    /\ IssueRetry
    /\ UNCHANGED << inputs, characters, script, report, global_failed_files, rounds, retry_waits,
                    new_failures, retry_pos, repos, tasks, last, container_calls >>

RetryStep(b) ==
    /\ retry_att' = b
    /\ last' = [ last EXCEPT ![RetryOp] = LastAfter(@, b) ]
    /\ UNCHANGED << inputs, characters, script, main_pc, report, global_failed_files, rounds, retry_waits,
                    new_failures, retry_pos, repos, tasks, attempts, container_calls >>

\* lines 69-102 in the main thread (called at line 156)
RetryCreateItemReturns(out) ==
    /\ main_pc = "retry_call"
    /\ retry_att.pc = "create"
    /\ RetryStep(create_file_returns(retry_att, out, RetryTuple))

RetryGetContentsReturns(sha) ==
    /\ main_pc = "retry_call"
    /\ retry_att.pc = "read"
    /\ RetryStep(get_contents_returns(retry_att, sha))

RetryGetContentsFails(kind) ==
    /\ main_pc = "retry_call"
    /\ retry_att.pc = "read"
    /\ RetryStep(except_update_err(retry_att, kind, RetryTuple))

RetryUpdateFileReturns ==
    /\ main_pc = "retry_call"
    /\ retry_att.pc = "update"
    /\ RetryStep(update_file_returns(retry_att))

RetryUpdateFileFails(kind) ==
    /\ main_pc = "retry_call"
    /\ retry_att.pc = "update"
    /\ RetryStep(except_update_err(retry_att, kind, RetryTuple))

RetryRateLimitSleepEnds ==
    /\ main_pc = "retry_call"
    /\ retry_att.pc = "sleep"
    /\ RetryStep(sleep_returns(retry_att, RetryTuple))

\* lines 156-158: create_junk_file is back in retry_failed_files; an
\* exception it raised is handled nowhere in retry_failed_files or main
RetryTaskDone ==
    /\ main_pc = "retry_call"
    /\ retry_att.pc = "ret"
    /\ IF retry_att.result = "raised"
       THEN /\ main_pc' = "crashed"
            /\ report' = "traceback"
            /\ UNCHANGED << new_failures, retry_pos >>
       ELSE /\ main_pc' = "round"
            /\ new_failures' = IF retry_att.result # "True"
                               THEN Append(new_failures, retry_att.ret)
                               ELSE new_failures
            /\ retry_pos' = retry_pos + 1
            /\ UNCHANGED report
    /\ retry_att' = Slot("idle")
    /\ UNCHANGED << inputs, characters, script, global_failed_files, rounds, retry_waits, repos, tasks,
                    attempts, last, container_calls >>

\* lines 159, 215-221: retry_failed_files returns and its list replaces
\* global_failed_files
\* The list of the round is added to the old list, which keeps its tasks.
install_failures_extends(old, new) == old \o new

\* line 215: global_failed_files = retry_failed_files(...)
install_failures(old, new) == new

RoundEnds ==
    /\ main_pc = "round"
    /\ retry_pos > Len(global_failed_files)
    /\ global_failed_files' = install_failures(global_failed_files, new_failures)
    /\ new_failures' = << >>
    /\ retry_pos' = 0
    /\ IF new_failures = << >>
       THEN /\ main_pc' = "done"
            /\ report' = "retry_ok"
            /\ UNCHANGED retry_waits
       ELSE /\ main_pc' = "retry_delay"
            /\ retry_waits' = retry_waits + 1
            /\ UNCHANGED report
    /\ UNCHANGED << inputs, characters, script, rounds, retry_att, repos, tasks, attempts, last,
                    container_calls >>

Next ==
    \/ MainSubmit
    \/ \E r \in Repos : RepoStart(r)
    \/ \E r \in Repos : CreateRepoOk(r)
    \/ \E r \in Repos, kind \in ErrKinds : CreateRepoFails(r, kind)
    \/ \E r \in Repos, i \in Files : TaskStart(r, i)
    \/ \E r \in Repos, i \in Files, out \in CreateItemOutcomes : CreateItemReturns(r, i, out)
    \/ \E r \in Repos, i \in Files, sha \in Shas : GetContentsReturns(r, i, sha)
    \/ \E r \in Repos, i \in Files, kind \in ErrKinds : GetContentsFails(r, i, kind)
    \/ \E r \in Repos, i \in Files : UpdateFileReturns(r, i)
    \/ \E r \in Repos, i \in Files, kind \in ErrKinds : UpdateFileFails(r, i, kind)
    \/ \E r \in Repos, i \in Files : RateLimitSleepEnds(r, i)
    \/ \E r \in Repos, i \in Files : CollectFuture(r, i)
    \/ \E r \in Repos : SlowPauseEnds(r)
    \/ \E r \in Repos : ProcessRepoReturns(r)
    \/ \E r \in Repos : ProcessRepoAborts(r)
    \/ \E r \in Repos : MainCollect(r)
    \/ MainRetryCheck
    \/ RetryDelayEnds
    \/ RetryNextTask
    \/ RetrySlowPauseEnds
    \/ \E out \in CreateItemOutcomes : RetryCreateItemReturns(out)
    \/ \E sha \in Shas : RetryGetContentsReturns(sha)
    \/ \E kind \in ErrKinds : RetryGetContentsFails(kind)
    \/ RetryUpdateFileReturns
    \/ \E kind \in ErrKinds : RetryUpdateFileFails(kind)
    \/ RetryRateLimitSleepEnds
    \/ RetryTaskDone
    \/ RoundEnds

Spec == Init /\ [][Next]_vars

\* ============================================== src/repo/python.py
\* The single-repository script: one repository, no failure list, no retry
\* round. Its create_junk_file returns nothing.
FORBIDDEN_DELAY == 60

ReturnNone(a) == [ a EXCEPT !.pc = "ret", !.result = "None" ]

\* lines 67, 79: get_contents is issued
script_get_contents(a) == [ a EXCEPT !.pc = "read", !.reads = @ + 1 ]

\* lines 63-86: except GithubException as e
script_except_GithubException(a, e) ==
    IF status(e) = 409
    THEN script_get_contents(a)
    ELSE IF status(e) = 403
         THEN [ a EXCEPT !.pc = "sleep", !.waited = @ + FORBIDDEN_DELAY ]
         ELSE ReturnNone(a)

\* lines 60-86: create_file returns or raises; an exception that is no
\* GithubException has no handler in create_junk_file
script_create_file_returns(a, out) ==
    IF out = "ok"
    THEN ReturnNone([ a EXCEPT !.stored = << a.content >> ])
    ELSE IF IsGithubException(out)
         THEN script_except_GithubException([ a EXCEPT !.err = out ], out)
         ELSE Raise([ a EXCEPT !.err = out ])

\* After the wait the item is given up, as the organization script does.
script_sleep_returns_gives_up(a) == ReturnNone(a)

\* lines 77-79: time.sleep(60) is over and get_contents is issued
script_sleep_returns(a) == script_get_contents(a)

\* lines 67-69, 79-81: get_contents returned; update_file is issued with its
\* sha and the content of line 57
script_get_contents_returns(a, sha) ==
    [ a EXCEPT !.pc = "update", !.sha = sha, !.upd_sha = sha, !.updates = @ + 1,
               !.upd_content = a.content ]

\* lines 68-70, 80-82: update_file returned
script_update_file_returns(a) == ReturnNone([ a EXCEPT !.stored = << a.upd_content >> ])

\* lines 71-72, 83-84: except GithubException as update_err
script_except_update_err(a, kind) ==
    IF kind = "GithubException"
    THEN ReturnNone(a)
    ELSE Raise(a)

\* line 141: max_workers = 1 if slow_mode else num_files
script_max_workers(slow, n) == IF slow THEN 1 ELSE n

ScriptRunning == { i \in Files : Running(script_tasks[i]) }
ScriptQueued == { i \in Files : script_tasks[i].pc = "queued" }

\* the state at line 141: the repository was found or created and the
\* prompts were answered
ScriptInit ==
    /\ slow_mode \in BOOLEAN
    /\ num_files \in 0 .. MaxFiles
    /\ file_size \in 0 .. MaxFileSize
    /\ characters \in Alphabets
    /\ num_files * Cardinality(characters) <= MaxOps
    /\ script_pc = "start"
    /\ script_tasks = [ i \in Files |-> Slot("unsubmitted") ]
    /\ script_invoked = [ i \in Files |-> 0 ]
    /\ num_repos = 0
    /\ main_pc = "start"
    /\ report = "none"
    /\ global_failed_files = << >>
    /\ rounds = 0
    /\ retry_waits = 0
    /\ new_failures = << >>
    /\ retry_pos = 0
    /\ retry_att = Slot("idle")
    /\ repos = << >>
    /\ tasks = << >>
    /\ attempts = << >>
    /\ last = << >>
    /\ container_calls = << >>

\* lines 143-147: the executor is built and every create_junk_file submitted
ScriptSubmit ==
    /\ script_pc = "start"
    /\ IF executor_raises(script_max_workers(slow_mode, num_files))
       THEN /\ script_pc' = "crashed"
            /\ UNCHANGED script_tasks
       ELSE /\ script_pc' = "as_completed"
            /\ script_tasks' = [ i \in Files |-> Slot("queued") ]
    /\ UNCHANGED << inputs, characters, org, script_invoked >>

\* lines 145, 54-61: a worker takes a create_junk_file and issues create_file
ScriptTaskStart(i) ==
    /\ script_pc \in { "as_completed", "sleep1" }
    /\ WorkerTakes(script_max_workers(slow_mode, num_files), ScriptRunning, ScriptQueued, i)
    /\ \E content \in random_string_newlined(file_size) :
          script_tasks' = [ script_tasks EXCEPT ![i] = FrameWith(content) ]
    /\ script_invoked' = [ script_invoked EXCEPT ![i] = @ + 1 ]
    /\ UNCHANGED << inputs, characters, org, script_pc >>

ScriptTaskStep(i, b) ==
    /\ script_tasks' = [ script_tasks EXCEPT ![i] = b ]
    /\ UNCHANGED << inputs, characters, org, script_pc, script_invoked >>

\* lines 60-86 in a worker
ScriptCreateItemReturns(i, out) ==
    /\ script_tasks[i].pc = "create"
    /\ ScriptTaskStep(i, script_create_file_returns(script_tasks[i], out))

\* line 77 in a worker
ScriptForbiddenSleepEnds(i) ==
    /\ script_tasks[i].pc = "sleep"
    /\ ScriptTaskStep(i, script_sleep_returns(script_tasks[i]))

\* lines 67-69, 79-81 in a worker
ScriptGetContentsReturns(i, sha) ==
    /\ script_tasks[i].pc = "read"
    /\ ScriptTaskStep(i, script_get_contents_returns(script_tasks[i], sha))

\* lines 67, 71-72, 79, 83-84 in a worker
ScriptGetContentsFails(i, kind) ==
    /\ script_tasks[i].pc = "read"
    /\ ScriptTaskStep(i, script_except_update_err(script_tasks[i], kind))

\* lines 68-70, 80-82 in a worker
ScriptUpdateFileReturns(i) ==
    /\ script_tasks[i].pc = "update"
    /\ ScriptTaskStep(i, script_update_file_returns(script_tasks[i]))

\* lines 68, 71-72, 80, 83-84 in a worker
ScriptUpdateFileFails(i, kind) ==
    /\ script_tasks[i].pc = "update"
    /\ ScriptTaskStep(i, script_except_update_err(script_tasks[i], kind))

\* lines 148-154: as_completed hands a finished future to the loop body; an
\* exception of future.result() is printed, and nothing is kept of the call
ScriptCollect(i) ==
    /\ script_pc = "as_completed"
    /\ script_tasks[i].pc = "ret"
    /\ script_tasks' = [ script_tasks EXCEPT ![i] = Slot("seen") ]
    /\ script_pc' = IF slow_mode THEN "sleep1" ELSE "as_completed"
    /\ UNCHANGED << inputs, characters, org, script_invoked >>

\* line 154: time.sleep(1) is over
ScriptSlowPauseEnds ==
    /\ script_pc = "sleep1"
    /\ script_pc' = "as_completed"
    /\ UNCHANGED << inputs, characters, org, script_tasks, script_invoked >>

\* lines 148, 143: every future was handed out, the with block is left and
\* main returns
ScriptEnds ==
    /\ script_pc = "as_completed"
    /\ \A i \in Files : script_tasks[i].pc = "seen"
    /\ script_pc' = "done"
    /\ UNCHANGED << inputs, characters, org, script_tasks, script_invoked >>

ScriptNext ==
    \/ ScriptSubmit
    \/ \E i \in Files : ScriptTaskStart(i)
    \/ \E i \in Files, out \in CreateItemOutcomes : ScriptCreateItemReturns(i, out)
    \/ \E i \in Files : ScriptForbiddenSleepEnds(i)
    \/ \E i \in Files, sha \in Shas : ScriptGetContentsReturns(i, sha)
    \/ \E i \in Files, kind \in ErrKinds : ScriptGetContentsFails(i, kind)
    \/ \E i \in Files : ScriptUpdateFileReturns(i)
    \/ \E i \in Files, kind \in ErrKinds : ScriptUpdateFileFails(i, kind)
    \/ \E i \in Files : ScriptCollect(i)
    \/ ScriptSlowPauseEnds
    \/ ScriptEnds

ScriptSpec == ScriptInit /\ [][ScriptNext]_vars

\* ------------------------------------------------------------ properties
Frames == { tasks[o] : o \in Ops } \cup { retry_att }

InRetryLoop == main_pc \in { "retry_delay", "round", "retry_sleep1", "retry_call" }

DispatchOver == main_pc = "as_completed" /\ \A r \in Repos : repos[r].pc = "collected"

Count(seq, x) == Cardinality({ k \in 1 .. Len(seq) : seq[k] = x })

\* C1, state part: never more than 3 rounds run; when the retry loop has
\* finished, the failure list is empty or exactly 3 rounds were executed; the
\* loop does not go on with an empty list.
C1_RetryLoopState ==
    /\ rounds <= 3
    /\ main_pc = "done" => (global_failed_files = << >> \/ rounds = 3)
    /\ InRetryLoop => global_failed_files # << >>

\* C1, step part: with an empty initial list main ends at once, with 0
\* rounds, no wait and no remote call; the round that leaves the list empty
\* is the last one and no wait follows it.
C1_RetryLoopStep ==
    /\ (DispatchOver /\ global_failed_files = << >> /\ main_pc' # main_pc)
          => /\ main_pc' = "done"
             /\ rounds' = 0
             /\ retry_waits' = 0
             /\ attempts' = attempts
    /\ (main_pc = "round" /\ main_pc' # "round" /\ global_failed_files' = << >>
            /\ global_failed_files # global_failed_files')
          => /\ main_pc' = "done"
             /\ rounds' = rounds
             /\ retry_waits' = retry_waits

\* C1: the retry loop of main ends with an empty failure list or after
\* exactly MAX_RETRIES = 3 calls of retry_failed_files, never runs more than 3
\* rounds, stops at the first round that empties the list, and does nothing
\* for an empty initial list.
C1_RetryLoopBounded == [] C1_RetryLoopState /\ [][C1_RetryLoopStep]_vars

C1_Witness == main_pc = "done" /\ rounds = 3 /\ global_failed_files # << >>

\* C2: if every create_file call of a process_repo invocation succeeded, the
\* invocation returns an empty list after exactly one create_file per index
\* 1..N, and an attempt whose create_file succeeded issues no get_contents and
\* no update_file.
C2_AllSucceed ==
    /\ \A r \in Repos :
          ( /\ repos[r].pc = "returned"
            /\ repos[r].container = "ok"
            /\ \A i \in Files : last[<< r, i >>].create \in { "none", "ok" } )
          => /\ repos[r].failed_files = << >>
             /\ \A i \in Files : attempts[<< r, i >>] = 1
    /\ \A o \in Ops :
          (tasks[o].pc = "ret" /\ tasks[o].err = "none")
          => tasks[o].result = "True" /\ tasks[o].reads = 0 /\ tasks[o].updates = 0

C2_Witness ==
    \E r \in Repos :
        /\ num_files = 2
        /\ repos[r].pc = "returned"
        /\ \A i \in Files : last[<< r, i >>].create = "ok"

\* C3: with the container created, the list process_repo returns holds
\* exactly the operations of the batch whose attempt ended in failure, each
\* once.
C3_ReturnsExactlyFailed ==
    \A r \in Repos :
        (repos[r].pc = "returned" /\ repos[r].container = "ok")
        => \A i \in Files :
              Count(repos[r].failed_files, OpTuple(r, i))
                 = IF last[<< r, i >>].result \in { "tuple", "raised" } THEN 1 ELSE 0

\* C4: every attempt of create_junk_file, in dispatch and in a retry round,
\* ends by returning True or the operation's own tuple; no error leaves it as
\* an exception.
C4_AttemptNeverRaises ==
    /\ \A o \in Ops :
          tasks[o].pc = "ret"
          => \/ tasks[o].result = "True"
             \/ tasks[o].result = "tuple" /\ tasks[o].ret = OpTuple(o[1], o[2])
    /\ retry_att.pc = "ret"
          => \/ retry_att.result = "True"
             \/ retry_att.result = "tuple" /\ retry_att.ret = global_failed_files[retry_pos]

\* C5: an attempt whose create_file reported 409 issues exactly one
\* get_contents, then at most one update_file carrying the sha that
\* get_contents returned, and never waits; the operation is absent from the
\* list process_repo returns if the update succeeded and present in it if
\* the read or the update failed; dispatch consumes no retry round.
C5_ConflictPath ==
    /\ \A a \in Frames :
          a.err = "gh409"
          => /\ a.reads = 1
             /\ a.updates <= 1
             /\ a.waited = 0
             /\ a.updates = 1 => (a.sha \in Shas /\ a.upd_sha = a.sha)
    /\ \A r \in Repos :
          (repos[r].pc = "returned" /\ repos[r].container = "ok")
          => \A i \in Files :
                last[<< r, i >>].create = "conflict"
                => Count(repos[r].failed_files, OpTuple(r, i))
                      = IF last[<< r, i >>].result = "True" THEN 0 ELSE 1
    /\ (DispatchOver /\ \A o \in Ops : last[o].result = "True")
          => global_failed_files = << >>
    /\ main_pc = "as_completed" => rounds = 0

\* What C6 says of one frame of create_junk_file called for the tuple opt.
RateLimitRule(a, opt) ==
    /\ a.err \in { "gh403", "ex403" }
          => /\ a.waited = 60
             /\ a.reads = 0
             /\ a.updates = 0
             /\ \/ a.pc = "sleep"
                \/ a.pc = "ret" /\ a.result = "tuple" /\ a.ret = opt
    /\ a.err \in { "gh500", "gh500txt403", "ex" }
          => /\ a.waited = 0
             /\ a.reads = 0
             /\ a.updates = 0
             /\ a.pc = "ret" /\ a.result = "tuple" /\ a.ret = opt

\* C6: an attempt whose create_file raised status 403, or an error that is no
\* GithubException and whose text contains "403", waits 60 and then returns
\* its tuple without another remote call, in both modes; any other error
\* that is no conflict returns the tuple without a wait.
C6_RateLimitWait ==
    /\ \A o \in Ops : RateLimitRule(tasks[o], OpTuple(o[1], o[2]))
    /\ main_pc = "retry_call" => RateLimitRule(retry_att, global_failed_files[retry_pos])

C6_Witness ==
    /\ slow_mode
    /\ \E o \in Ops : tasks[o].pc = "ret" /\ tasks[o].err = "ex403" /\ tasks[o].waited = 60
    /\ \E o \in Ops : tasks[o].pc = "ret" /\ tasks[o].err = "gh500txt403" /\ tasks[o].waited = 0

ItemCallsInFlight(r) == { i \in Files : tasks[<< r, i >>].pc \in { "create", "read", "update" } }

\* C7: within one process_repo invocation at most 1 remote item call is in
\* flight in Slow mode and at most N in Fast mode.
C7_InFlightBound ==
    \A r \in Repos :
        Cardinality(ItemCallsInFlight(r)) <= IF slow_mode THEN 1 ELSE num_files

\* Fast mode, N = 2, and N item calls in flight at once
C7_Witness ==
    /\ ~ slow_mode
    /\ num_files = 2
    /\ \E r \in Repos : Cardinality(ItemCallsInFlight(r)) = num_files

\* C8: at the end of the run an operation whose every attempt failed has
\* been attempted exactly 1 + 3 = 4 times and is exactly once in the final
\* failure list; an operation that succeeded is absent from it.
C8_AlwaysFailingOp ==
    main_pc = "done"
    => \A o \in Ops :
          /\ (attempts[o] >= 1 /\ last[o].result # "True")
                => /\ attempts[o] = 4
                   /\ Count(global_failed_files, OpTuple(o[1], o[2])) = 1
          /\ last[o].result = "True"
                => Count(global_failed_files, OpTuple(o[1], o[2])) = 0

\* C9: for an empty batch process_repo issues create_repo, issues no item
\* call and returns an empty list without raising, in both modes.
C9_EmptyBatch ==
    num_files = 0
    => /\ \A r \in Repos :
             /\ repos[r].pc # "raised"
             /\ repos[r].pc \in { "returned", "collected" }
                   => container_calls[r] = 1 /\ repos[r].failed_files = << >>
       /\ \A o \in DOMAIN attempts : attempts[o] = 0
       /\ global_failed_files = << >>

\* Fast mode, N = 0, create_repo succeeded and process_repo returned
C9_Witness ==
    /\ num_files = 0
    /\ ~ slow_mode
    /\ \E r \in Repos : repos[r].pc = "returned" /\ repos[r].container = "ok"

\* C10: a container whose create_repo failed gets no item call, an empty
\* list and no second create_repo; every other container is still
\* dispatched, and what its process_repo returned is in the global list when
\* dispatch is over.
C10_ContainerFailure ==
    /\ \A r \in Repos :
          /\ container_calls[r] <= 1
          /\ repos[r].container = "failed"
                => /\ repos[r].pc \in { "returned", "collected" }
                   /\ repos[r].failed_files = << >>
                   /\ \A i \in Files :
                         attempts[<< r, i >>] = 0 /\ tasks[<< r, i >>].pc = "unsubmitted"
    /\ main_pc \notin { "start", "as_completed", "crashed" }
          => \A r \in Repos : container_calls[r] = 1
    /\ main_pc = "as_completed"
          => \A r \in Repos :
                repos[r].pc = "collected"
                => \A k \in 1 .. Len(repos[r].failed_files) :
                      Count(global_failed_files, repos[r].failed_files[k]) = 1

C10_Witness ==
    /\ DispatchOver
    /\ \E r \in Repos : repos[r].container = "failed"
    /\ \E r \in Repos : repos[r].failed_files # << >>
    /\ global_failed_files # << >>

TupleOp(t) == << t[1], t[2] >>

\* C11, state part: while main is in the retry loop no dispatch worker runs
\* and at most one attempt, that of the main thread, is in progress.
C11_RetryState ==
    InRetryLoop
    => /\ \A o \in Ops : ~ Running(tasks[o])
       /\ Running(retry_att) => main_pc = "retry_call"
       /\ Cardinality({ o \in Ops : Running(tasks[o]) })
             + (IF Running(retry_att) THEN 1 ELSE 0) <= 1

\* C11, step part: an attempt that starts in a round is that of the first
\* task of the list not yet attempted in this round, and starts when the
\* attempts of all tasks before it have returned.
C11_RetryStep ==
    (InRetryLoop /\ attempts' # attempts)
    => \E k \in 1 .. Len(global_failed_files) :
          /\ attempts' = [ attempts EXCEPT ![TupleOp(global_failed_files[k])] = @ + 1 ]
          /\ retry_att.pc = "idle"
          /\ \A j \in 1 .. (k - 1) :
                /\ attempts[TupleOp(global_failed_files[j])] = rounds + 1
                /\ last[TupleOp(global_failed_files[j])].result # "none"
          /\ \A j \in k .. Len(global_failed_files) :
                attempts[TupleOp(global_failed_files[j])] = rounds

\* C11: in the retry rounds, in both modes, at most one attempt is in
\* progress at any time, and the tasks of a round are attempted one after
\* another in the order of the failure list, each after the previous one
\* returned.
C11_RetrySequential == [] C11_RetryState /\ [][C11_RetryStep]_vars

\* Fast mode, the second task of a list of two is being attempted
C11_Witness ==
    /\ ~ slow_mode
    /\ main_pc = "retry_call"
    /\ Len(global_failed_files) = 2
    /\ retry_pos = 2
    /\ Running(retry_att)

\* C12: for a non-empty initial list main waits RETRY_DELAY once before
\* round 1 and after a round only if the list is non-empty and a further
\* round remains: a wait in progress is followed by a round, and a finished
\* retry loop of n rounds has made n waits (one before each round, none
\* after the last).
C12_NoWaitAfterLastRound ==
    /\ main_pc = "retry_delay"
          => global_failed_files # << >> /\ rounds < MAX_RETRIES
    /\ InRetryLoop => retry_waits \in { rounds, rounds + 1 }
    /\ (main_pc = "done" /\ rounds >= 1) => retry_waits = rounds

\* C13, throttle part: in Slow mode a create_junk_file that has started and
\* is not yet handed out by as_completed started after every task before it
\* was handed out and the pause that followed was over.
C13_Throttle ==
    slow_mode
    => \A r \in Repos, i \in Files :
          (Running(tasks[<< r, i >>]) \/ tasks[<< r, i >>].pc = "ret")
          => /\ \A j \in 1 .. (i - 1) : tasks[<< r, j >>].pc = "seen"
             /\ repos[r].pc # "sleep1"

\* C13, pause part: in Slow mode every future that is handed out is followed
\* by a pause, whatever its outcome.
C13_PauseStep ==
    slow_mode
    => \A o \in Ops :
          (tasks[o].pc = "ret" /\ tasks'[o].pc = "seen") => repos'[o[1]].pc = "sleep1"

\* C13: in Slow mode process_repo pauses once, for 1 second, per completed
\* operation whatever its outcome, and the create_file of the next operation
\* of the batch does not start before the pause that follows the previous
\* operation has elapsed.
C13_SlowPauseThrottles == [] C13_Throttle /\ [][C13_PauseStep]_vars

\* C15: no operation has two attempts in progress at once: dispatch
\* attempts each operation of a batch once, and a retry attempt exists only
\* when every process_repo was collected and no dispatch worker is left.
C15_NoConcurrentSameOp ==
    /\ \A o \in Ops :
          (IF Running(tasks[o]) THEN 1 ELSE 0)
             + (IF main_pc = "retry_call" /\ Running(retry_att)
                      /\ TupleOp(global_failed_files[retry_pos]) = o
                THEN 1 ELSE 0) <= 1
    /\ main_pc \in { "start", "as_completed" } => \A o \in Ops : attempts[o] <= 1
    /\ (retry_att.pc # "idle" \/ \E o \in Ops : attempts[o] >= 2)
          => /\ \A r \in Repos : repos[r].pc = "collected"
             /\ \A o \in Ops : tasks[o].pc \in { "seen", "unsubmitted" }

\* Fast mode, two containers, a retry attempt in progress
C15_Witness ==
    /\ ~ slow_mode
    /\ num_repos = 2
    /\ main_pc = "retry_call"
    /\ Running(retry_att)
    /\ \A o \in Ops : attempts[o] >= 1

\* s is t with some elements left out: same relative order, nothing added,
\* nothing repeated.
IsSubsequence(s, t) ==
    /\ Len(s) <= Len(t)
    /\ \E f \in [ 1 .. Len(s) -> 1 .. Len(t) ] :
          /\ \A k \in 1 .. Len(s) : s[k] = t[f[k]]
          /\ \A j, k \in 1 .. Len(s) : j < k => f[j] < f[k]

\* C16, state part: the list a round is building holds, in order, tasks of
\* the part of the list already walked.
C16_RoundState ==
    main_pc \in { "round", "retry_sleep1", "retry_call" }
    => /\ retry_pos >= 1
       /\ IsSubsequence(new_failures, SubSeq(global_failed_files, 1, retry_pos - 1))

\* C16, step part: in the retry loop the global list changes only when a
\* round has walked the whole list, and then to a subsequence of itself; an
\* operation is attempted again only if its latest attempt failed.
C16_RoundStep ==
    /\ (InRetryLoop /\ global_failed_files' # global_failed_files)
          => /\ main_pc = "round"
             /\ retry_pos = Len(global_failed_files) + 1
             /\ retry_att.pc = "idle"
             /\ global_failed_files' = new_failures
             /\ IsSubsequence(global_failed_files', global_failed_files)
    /\ \A o \in Ops :
          (attempts'[o] # attempts[o] /\ attempts[o] >= 1)
          => /\ last[o].result = "tuple"
             /\ InRetryLoop
    /\ \A o \in Ops : last[o].result = "True" => attempts'[o] = attempts[o]

\* C16: after every retry round the new failure list is a subsequence of
\* the list the round started with, it replaces that list only when the
\* round has finished, and an operation is attempted in a round only if its
\* latest attempt failed: an operation that succeeded is never attempted
\* again.
C16_RoundShrinksList == [] C16_RoundState /\ [][C16_RoundStep]_vars

\* a round over two tasks ended with the second one alone left, the first
\* having succeeded
C16_Witness ==
    /\ rounds >= 1
    /\ main_pc = "retry_delay"
    /\ Len(global_failed_files) = 1
    /\ \E o \in Ops : attempts[o] = 2 /\ last[o].result = "True"
    /\ \E o \in Ops : attempts[o] = 2 /\ last[o].result = "tuple"
    /\ global_failed_files[1][1] * global_failed_files[1][2] = 2

ReturnedBy(t) == { r \in Repos : \E k \in 1 .. Len(repos[r].failed_files) :
                                    repos[r].failed_files[k] = t }

\* C17: when dispatch is over and before the first retry round, the global
\* list holds exactly the tasks that the process_repo invocations returned,
\* each once, in whatever order the invocations completed.
C17_GlobalListComplete ==
    (rounds = 0 /\ (DispatchOver \/ main_pc = "retry_delay"))
    => /\ \A r \in Repos : repos[r].pc = "collected"
       /\ \A o \in Ops :
             Count(global_failed_files, OpTuple(o[1], o[2]))
                = IF ReturnedBy(OpTuple(o[1], o[2])) # { } THEN 1 ELSE 0
       /\ \A k \in 1 .. Len(global_failed_files) :
             ReturnedBy(global_failed_files[k]) = { global_failed_files[k][1] }

\* both containers returned a failure and the second completed first
C17_Witness ==
    /\ main_pc = "retry_delay"
    /\ rounds = 0
    /\ num_repos = 2
    /\ \A r \in Repos : repos[r].failed_files # << >>
    /\ global_failed_files[1][1] = 2

\* C18: a run of main can stop only in a normal terminal state, which is an
\* empty failure list or the report of the list left after MAX_RETRIES
\* rounds; no run ends by an exception.
C18_NormalEnd ==
    /\ report # "traceback"
    /\ ~ ENABLED Next => main_pc = "done"
    /\ main_pc = "done"
          => \/ global_failed_files = << >> /\ report \in { "first_pass", "retry_ok" }
             \/ /\ global_failed_files # << >>
                /\ rounds = MAX_RETRIES
                /\ report = "still_failed"

RemoteCallsInFlight ==
    Cardinality({ r \in Repos : repos[r].pc = "create_repo" })
       + Cardinality({ o \in Ops : InFlight(tasks[o]) })
       + (IF InFlight(retry_att) THEN 1 ELSE 0)

\* C19: in Slow mode at most one remote call is in flight at any time of the
\* run, and a container is started only when process_repo has returned for
\* every container before it and none of their file workers is left.
C19_SlowOneCallAtATime ==
    slow_mode
    => /\ RemoteCallsInFlight <= 1
       /\ \A r \in Repos :
             repos[r].pc \notin { "unsubmitted", "queued" }
             => \A q \in 1 .. (r - 1) :
                   /\ repos[q].pc \in { "returned", "collected" }
                   /\ \A i \in Files : tasks[<< q, i >>].pc \in { "seen", "unsubmitted" }

\* Slow mode: the create_repo of the second container is in flight after the
\* first container had its item attempted
C19_Witness ==
    /\ slow_mode
    /\ num_repos = 2
    /\ num_files >= 1
    /\ repos[2].pc = "create_repo"
    /\ attempts[<< 1, 1 >>] = 1

\* C14: an attempt that took the conflict path and whose update_file
\* succeeded leaves as the stored content of the item the content generated
\* for that attempt, which is what a successful create_file of that attempt
\* leaves.
C14_ConflictStoresContent ==
    \A a \in Frames :
        (a.pc = "ret" /\ a.result = "True")
        => /\ a.stored = << a.content >>
           /\ a.err = "gh409" => a.upd_content = a.content
           /\ a.err \in { "none", "gh409" }

\* a conflict attempt with a content of one character ended by a successful
\* update
C14_Witness ==
    \E a \in Frames :
        /\ a.pc = "ret"
        /\ a.err = "gh409"
        /\ a.result = "True"
        /\ a.updates = 1
        /\ a.content # << >>

\* C20: in the single-repository script a create_junk_file whose create_file
\* raised status 403 waits 60 seconds and then issues one get_contents and,
\* if that returns, one update_file with its sha; every submitted operation
\* is invoked once, nothing is kept of a finished call and nothing runs once
\* main has ended.
C20_ForbiddenThenUpdate ==
    /\ \A i \in Files :
          LET a == script_tasks[i] IN
          /\ script_invoked[i] <= 1
          /\ a.err = "gh403"
                => /\ a.waited = 60
                   /\ a.pc = "sleep" => a.reads = 0 /\ a.updates = 0
                   /\ a.pc # "sleep" => a.reads = 1 /\ a.updates <= 1
                   /\ a.updates = 1 => a.sha \in Shas /\ a.upd_sha = a.sha
                   /\ (a.pc = "ret" /\ a.sha \in Shas) => a.updates = 1
                   /\ a.pc = "ret" => a.result \in { "None", "raised" }
          /\ a.err # "gh403" => a.waited = 0
          /\ a.pc = "seen" => a = Slot("seen")
          /\ a.pc \notin { "unsubmitted", "queued" } => script_invoked[i] = 1
    /\ script_pc = "done"
          => \A i \in Files : script_invoked[i] = 1 /\ script_tasks[i].pc = "seen"
    /\ script_pc \in { "done", "crashed" } => ~ ENABLED ScriptNext

\* a call whose create_file raised 403 waited, read and updated
C20_Witness ==
    \E i \in Files :
        /\ script_tasks[i].err = "gh403"
        /\ script_tasks[i].pc = "ret"
        /\ script_tasks[i].waited = 60
        /\ script_tasks[i].reads = 1
        /\ script_tasks[i].updates = 1
        /\ script_tasks[i].result = "None"

====
